---- MODULE Spec2Model ----
(***************************************************************************)
(* Interest Rate Calculator: user_inputs.py, interest_rate_helpers.py and  *)
(* interest_rate_calculator_runner.py.                                     *)
(*                                                                         *)
(* A line of console input is a sequence of one-character strings.  A      *)
(* float (numpy.float64) is a record [k, n, d]: k = "fin" is the rational  *)
(* n/d (d > 0, lowest terms), k = "inf" is the infinity of sign n, k =     *)
(* "nan" is NaN.  Finite arithmetic is exact (no rounding, no overflow).   *)
(***************************************************************************)
EXTENDS Integers, Sequences, FiniteSets, TLC

VARIABLES
    pc,              \* position in main ("lib": the helpers called directly)
    principal_date,  \* main's locals
    current_date,
    principal,
    amount,
    debt_type,
    time_years,
    rate,
    trace,           \* console and call events of the run, in order
    line,            \* the result lines printed
    err,             \* the uncaught exception that ended the run
    cache,           \* lru_cache of calculate_duration_in_years
    call,            \* the last helper call
    ret,             \* what it returned or raised
    hit,             \* whether the cache served it
    returned         \* every <<start, end, value>> the duration helper returned

vars == <<pc, principal_date, current_date, principal, amount, debt_type,
          time_years, rate, trace, line, err, cache, call, ret, hit, returned>>

(***************************************************************************)
(* Characters and decimal digits                                           *)
(***************************************************************************)
Digits == {"0", "1", "2", "3", "4", "5", "6", "7", "8", "9"}

DigitVal(c) ==
    CASE c = "0" -> 0 [] c = "1" -> 1 [] c = "2" -> 2 [] c = "3" -> 3
      [] c = "4" -> 4 [] c = "5" -> 5 [] c = "6" -> 6 [] c = "7" -> 7
      [] c = "8" -> 8 [] c = "9" -> 9

IsDigits(s) == \A i \in 1..Len(s) : s[i] \in Digits

RECURSIVE ToNat(_)
ToNat(s) ==
    IF s = <<>> THEN 0
    ELSE ToNat(SubSeq(s, 1, Len(s) - 1)) * 10 + DigitVal(s[Len(s)])

RECURSIVE Pow10(_)
Pow10(k) == IF k = 0 THEN 1 ELSE 10 * Pow10(k - 1)

Abs(x) == IF x < 0 THEN 0 - x ELSE x

Sgn(x) == IF x < 0 THEN 0 - 1 ELSE IF x = 0 THEN 0 ELSE 1

RECURSIVE Gcd(_, _)
Gcd(a, b) == IF b = 0 THEN a ELSE Gcd(b, a % b)

(***************************************************************************)
(* numpy.float64 values and their arithmetic (IEEE rules for inf and NaN)  *)
(***************************************************************************)
Fin(n, d) ==
    LET g == Gcd(Abs(n), d)
    IN  [k |-> "fin", n |-> n \div g, d |-> d \div g]

NaN == [k |-> "nan", n |-> 0, d |-> 1]

Inf(s) == [k |-> "inf", n |-> s, d |-> 1]

Zero == Fin(0, 1)

One == Fin(1, 1)

Hundred == Fin(100, 1)

IsNaN(a) == a.k = "nan"

\* a < b; every comparison with NaN is false
FLt(a, b) ==
    /\ ~IsNaN(a)
    /\ ~IsNaN(b)
    /\ IF a.k = "inf" THEN a.n < 0 /\ ~(b.k = "inf" /\ b.n < 0)
       ELSE IF b.k = "inf" THEN b.n > 0
       ELSE a.n * b.d < b.n * a.d

\* a == b; NaN equals nothing, NaN included
FEq(a, b) ==
    /\ ~IsNaN(a)
    /\ ~IsNaN(b)
    /\ a.k = b.k
    /\ IF a.k = "inf" THEN a.n = b.n ELSE a.n * b.d = b.n * a.d

FLe(a, b) == FLt(a, b) \/ FEq(a, b)

FGt(a, b) == FLt(b, a)

FGe(a, b) == FLe(b, a)

FNeg(a) == IF a.k = "fin" THEN Fin(0 - a.n, a.d) ELSE [a EXCEPT !.n = 0 - a.n]

FSub(a, b) ==
    IF IsNaN(a) \/ IsNaN(b) THEN NaN
    ELSE IF a.k = "inf" THEN (IF b.k = "inf" /\ b.n = a.n THEN NaN ELSE a)
    ELSE IF b.k = "inf" THEN FNeg(b)
    ELSE Fin(a.n * b.d - b.n * a.d, a.d * b.d)

FMul(a, b) ==
    IF IsNaN(a) \/ IsNaN(b) THEN NaN
    ELSE IF a.k = "inf" \/ b.k = "inf"
         THEN (IF a.n = 0 \/ b.n = 0 THEN NaN ELSE Inf(Sgn(a.n) * Sgn(b.n)))
    ELSE Fin(a.n * b.n, a.d * b.d)

\* numpy division: x/0 is an infinity (or NaN for 0/0), not an exception
FDiv(a, b) ==
    IF IsNaN(a) \/ IsNaN(b) THEN NaN
    ELSE IF a.k = "inf"
         THEN (IF b.k = "inf" THEN NaN
               ELSE Inf(IF b.n < 0 THEN 0 - a.n ELSE a.n))
    ELSE IF b.k = "inf" THEN Zero
    ELSE IF b.n = 0 THEN (IF a.n = 0 THEN NaN ELSE Inf(Sgn(a.n)))
    ELSE Fin(a.n * b.d * Sgn(b.n), a.d * Abs(b.n))

(***************************************************************************)
(* datetime.strptime(s, "%Y-%m-%d") and date arithmetic                    *)
(***************************************************************************)
IsLeap(y) == y % 4 = 0 /\ (y % 100 # 0 \/ y % 400 = 0)

DaysInMonth(y, m) ==
    IF m = 2 THEN (IF IsLeap(y) THEN 29 ELSE 28)
    ELSE IF m \in {4, 6, 9, 11} THEN 30 ELSE 31

RECURSIVE DaysBeforeMonth(_, _)
DaysBeforeMonth(y, m) ==
    IF m = 1 THEN 0 ELSE DaysBeforeMonth(y, m - 1) + DaysInMonth(y, m - 1)

\* date.toordinal(): day 1 is 0001-01-01
Ordinal(y, m, d) ==
    LET p == y - 1
    IN  p * 365 + p \div 4 - p \div 100 + p \div 400 + DaysBeforeMonth(y, m) + d

NoDate == [ok |-> FALSE, y |-> 0, m |-> 0, d |-> 0]

\* %Y is four digits, %m is 1[0-2]|0[1-9]|[1-9], %d is
\* 3[01]|[12]\d|0[1-9]|[1-9]| [1-9]; the whole text must match and the
\* day must exist in the month (ValueError otherwise)
strptime(s) ==
    LET n  == Len(s)
        p  == IF n >= 7 /\ s[7] = "-" THEN 7 ELSE 8
        ms == SubSeq(s, 6, p - 1)
        ds == SubSeq(s, p + 1, n)
        dd == IF Len(ds) = 2 /\ ds[1] = " " THEN SubSeq(ds, 2, 2) ELSE ds
    IN  IF /\ n >= 8
           /\ IsDigits(SubSeq(s, 1, 4))
           /\ s[5] = "-"
           /\ s[p] = "-"
           /\ IsDigits(ms)
           /\ ToNat(ms) \in 1..12
           /\ Len(ds) \in 1..2
           /\ IsDigits(dd)
           /\ ToNat(dd) \in 1..31
           /\ ToNat(SubSeq(s, 1, 4)) >= 1
           /\ ToNat(dd) <= DaysInMonth(ToNat(SubSeq(s, 1, 4)), ToNat(ms))
        THEN [ok |-> TRUE, y |-> ToNat(SubSeq(s, 1, 4)), m |-> ToNat(ms),
              d |-> ToNat(dd)]
        ELSE NoDate

DateOrdinal(s) == LET t == strptime(s) IN Ordinal(t.y, t.m, t.d)

(***************************************************************************)
(* numpy.float64(text)                                                     *)
(***************************************************************************)
RECURSIVE Strip(_)
Strip(s) ==
    IF s # <<>> /\ s[1] = " " THEN Strip(Tail(s))
    ELSE IF s # <<>> /\ s[Len(s)] = " " THEN Strip(SubSeq(s, 1, Len(s) - 1))
    ELSE s

\* index of the first "." of s, or Len(s) + 1
RECURSIVE DotAt(_, _)
DotAt(s, i) == IF i > Len(s) \/ s[i] = "." THEN i ELSE DotAt(s, i + 1)

NoFloat == [ok |-> FALSE, v |-> NaN]

\* an unsigned body: nan, inf, infinity, or digits with an optional
\* fraction part (digits on at least one side of the point)
ParseUnsigned(b) ==
    LET p  == DotAt(b, 1)
        ip == SubSeq(b, 1, p - 1)
        fp == SubSeq(b, p + 1, Len(b))
    IN  IF b = <<"n", "a", "n">> THEN [ok |-> TRUE, v |-> NaN]
        ELSE IF b \in {<<"i", "n", "f">>,
                       <<"i", "n", "f", "i", "n", "i", "t", "y">>}
             THEN [ok |-> TRUE, v |-> Inf(1)]
        ELSE IF IsDigits(ip) /\ IsDigits(fp) /\ Len(ip) + Len(fp) > 0
             THEN [ok |-> TRUE, v |-> Fin(ToNat(ip \o fp), Pow10(Len(fp)))]
        ELSE NoFloat

\* float(text): surrounding blanks stripped, an optional sign
float64(text) ==
    LET s == Strip(text)
        signed == s # <<>> /\ s[1] \in {"+", "-"}
        u == ParseUnsigned(IF signed THEN Tail(s) ELSE s)
    IN  IF signed /\ s[1] = "-" /\ u.ok THEN [u EXCEPT !.v = FNeg(u.v)] ELSE u

\* user_input.replace(',', '')
RemoveCommas(s) == SelectSeq(s, LAMBDA c : c # ",")

(***************************************************************************)
(* interest_rate_helpers.py                                                *)
(***************************************************************************)
Ok(v, f) == [tag |-> "ok", msg |-> "", val |-> v, formula |-> f]

Raise(t, m) == [tag |-> t, msg |-> m, val |-> NaN, formula |-> FALSE]

NoRet == [tag |-> "none", msg |-> "", val |-> NaN, formula |-> FALSE]

MsgFormat == "time data does not match format '%Y-%m-%d'"

MsgRange == "The start date must be earlier than the end date."

MsgPrincipal == "Principal amount must be greater than zero."

MsgNegative == "Current amount cannot be negative."

MsgBelow ==
    "Current amount cannot be less than the principal, assuming interest accrues."

MsgTime == "Time in years must be greater than zero."

MsgPeriods ==
    "Number of compounding periods per year must be greater than zero."

\* 365.25, in hundredths of a day
DaysPerYearX100 == 36525

\* the years of a whole number of days: np.float64(duration_days) / 365.25
YearsOfDays(days) == Fin(days * 100, DaysPerYearX100)

\* variant: equal dates pass the range check
calculate_duration_in_years_strict(start_date, end_date) ==
    IF ~strptime(start_date).ok \/ ~strptime(end_date).ok
    THEN Raise("ValueError", MsgFormat)
    ELSE IF DateOrdinal(start_date) > DateOrdinal(end_date)
    THEN Raise("ValueError", MsgRange)
    ELSE Ok(YearsOfDays(DateOrdinal(end_date) - DateOrdinal(start_date)), TRUE)

\* the body of calculate_duration_in_years, as run on a cache miss
calculate_duration_in_years(start_date, end_date) ==
    IF ~strptime(start_date).ok \/ ~strptime(end_date).ok
    THEN Raise("ValueError", MsgFormat)
    ELSE IF DateOrdinal(start_date) >= DateOrdinal(end_date)
    THEN Raise("ValueError", MsgRange)
    ELSE Ok(YearsOfDays(DateOrdinal(end_date) - DateOrdinal(start_date)), TRUE)

\* variant: the key leaves out the second argument
CacheKeyStartOnly(start_date, end_date) == <<start_date>>

\* lru_cache keys a call by all its arguments
CacheKey(start_date, end_date) == <<start_date, end_date>>

\* @lru_cache(maxsize=None): a hit returns the stored value; a miss runs the
\* body and stores what it returns; an exception stores nothing
lru_cache(c, start_date, end_date) ==
    LET key   == CacheKey(start_date, end_date)
        found == {e \in c : e[1] = key}
        r     == calculate_duration_in_years(start_date, end_date)
    IN  IF found # {}
        THEN [ret |-> Ok((CHOOSE e \in found : TRUE)[2], FALSE), cache |-> c,
              hit |-> TRUE]
        ELSE [ret |-> r,
              cache |-> IF r.tag = "ok" THEN c \cup {<<key, r.val>>} ELSE c,
              hit |-> FALSE]

\* np.power(base, e) where the value is 0, 1, an infinity or NaN
PowerSpecial(base, e) ==
    IF e.k = "fin" /\ e.n = 0 THEN One
    ELSE IF FEq(base, One) THEN One
    ELSE IF IsNaN(base) \/ IsNaN(e) THEN NaN
    ELSE IF e.k = "inf"
         THEN (IF FLt(base, One) = (e.n > 0) THEN Zero ELSE Inf(1))
    ELSE IF base.k = "fin" /\ base.n = 0
         THEN (IF e.n > 0 THEN Zero ELSE Inf(1))
    ELSE IF base.k = "inf" /\ base.n > 0
         THEN (IF e.n > 0 THEN Inf(1) ELSE Zero)
    ELSE NaN

\* n * (np.power(np.float64(amount) / principal, 1 / (n * time_years)) - 1) * 100
\* A root of a finite positive ratio other than 1 is not a rational: the rate
\* is then kept as the term [k |-> "cmp"] holding the ratio n/d, of the sign
\* of n - d.
CompoundFormula(p, a, t, n) ==
    LET ratio == FDiv(a, p)
        e     == FDiv(One, FMul(n, t))
    IN  IF /\ ratio.k = "fin" /\ ratio.n > 0 /\ ratio.n # ratio.d
           /\ e.k = "fin" /\ e.n > 0
        THEN [k |-> "cmp", n |-> ratio.n, d |-> ratio.d]
        ELSE FMul(FMul(n, FSub(PowerSpecial(ratio, e), One)), Hundred)

calculate_compound_interest_rate(p, a, t, n) ==
    IF FLe(p, Zero) THEN Raise("ValueError", MsgPrincipal)
    ELSE IF FLt(a, Zero) THEN Raise("ValueError", MsgNegative)
    ELSE IF FLe(t, Zero) THEN Raise("ValueError", MsgTime)
    ELSE IF FLe(n, Zero) THEN Raise("ValueError", MsgPeriods)
    ELSE IF FEq(a, p) THEN Ok(Zero, FALSE)
    ELSE Ok(CompoundFormula(p, a, t, n), TRUE)

\* (np.float64(amount) - principal) / (principal * time_years) * 100
SimpleFormula(p, a, t) == FMul(FDiv(FSub(a, p), FMul(p, t)), Hundred)

\* variant: the amount == principal test comes before the validation
calculate_simple_interest_rate_eager(p, a, t) ==
    IF FEq(a, p) THEN Ok(Zero, FALSE)
    ELSE IF FLe(p, Zero) THEN Raise("ValueError", MsgPrincipal)
    ELSE IF FLt(a, p) THEN Raise("ValueError", MsgBelow)
    ELSE IF FLe(t, Zero) THEN Raise("ValueError", MsgTime)
    ELSE Ok(SimpleFormula(p, a, t), TRUE)

\* variant: amount == principal refused with amount < principal
calculate_simple_interest_rate_le(p, a, t) ==
    IF FLe(p, Zero) THEN Raise("ValueError", MsgPrincipal)
    ELSE IF FLe(a, p) THEN Raise("ValueError", MsgBelow)
    ELSE IF FLe(t, Zero) THEN Raise("ValueError", MsgTime)
    ELSE IF FEq(a, p) THEN Ok(Zero, FALSE)
    ELSE Ok(SimpleFormula(p, a, t), TRUE)

calculate_simple_interest_rate(p, a, t) ==
    IF FLe(p, Zero) THEN Raise("ValueError", MsgPrincipal)
    ELSE IF FLt(a, p) THEN Raise("ValueError", MsgBelow)
    ELSE IF FLe(t, Zero) THEN Raise("ValueError", MsgTime)
    ELSE IF FEq(a, p) THEN Ok(Zero, FALSE)
    ELSE Ok(SimpleFormula(p, a, t), TRUE)

(***************************************************************************)
(* user_inputs.py: one pass of each function's while loop on one line      *)
(***************************************************************************)
\* get_date_input: the line itself is returned when it parses
get_date_input(text) ==
    IF strptime(text).ok
    THEN [accepted |-> TRUE, msg |-> ""]
    ELSE [accepted |-> FALSE, msg |-> "date_format"]

\* get_float_input: commas removed, parsed, negatives refused
get_float_input(text) ==
    LET f == float64(RemoveCommas(text))
    IN  IF ~f.ok THEN [accepted |-> FALSE, msg |-> "not_numeric", value |-> NaN]
        ELSE IF FLt(f.v, Zero)
             THEN [accepted |-> FALSE, msg |-> "negative", value |-> NaN]
        ELSE [accepted |-> TRUE, msg |-> "", value |-> f.v]

(***************************************************************************)
(* f"{rate:.2f}": hundredths, ties to even; inf, nan and the symbolic      *)
(* compound term print as themselves                                       *)
(***************************************************************************)
RoundHalfEven(n, d) ==
    LET q == n \div d
        r == n % d
    IN  IF 2 * r > d \/ (2 * r = d /\ q % 2 = 1) THEN q + 1 ELSE q

\* variant: the digits after the second are dropped
Format2fTruncated(x) ==
    IF x.k = "fin"
    THEN [k |-> "fin", h |-> Sgn(x.n) * ((Abs(x.n) * 100) \div x.d)]
    ELSE [k |-> x.k, h |-> Sgn(x.n - (IF x.k = "cmp" THEN x.d ELSE 0))]

Format2f(x) ==
    IF x.k = "fin"
    THEN [k |-> "fin", h |-> Sgn(x.n) * RoundHalfEven(Abs(x.n) * 100, x.d)]
    ELSE [k |-> x.k, h |-> Sgn(x.n - (IF x.k = "cmp" THEN x.d ELSE 0))]

(***************************************************************************)
(* The lines typed at the prompts                                          *)
(***************************************************************************)
D_2020_01_01 == <<"2", "0", "2", "0", "-", "0", "1", "-", "0", "1">>

D_2021_01_01 == <<"2", "0", "2", "1", "-", "0", "1", "-", "0", "1">>

D_2021_1_1 == <<"2", "0", "2", "1", "-", "1", "-", "1">>

D_2024_13_01 == <<"2", "0", "2", "4", "-", "1", "3", "-", "0", "1">>

D_2020_03_01 == <<"2", "0", "2", "0", "-", "0", "3", "-", "0", "1">>

T_abc == <<"a", "b", "c">>

DateLines == {D_2020_01_01, D_2021_01_01, D_2024_13_01, T_abc}

T_1000 == <<"1", "0", "0", "0">>

T_1050 == <<"1", "0", "5", "0">>

T_900 == <<"9", "0", "0">>

T_0 == <<"0">>

T_1234_50 == <<"1", ",", "2", "3", "4", ".", "5", "0">>

T_minus5 == <<"-", "5">>

T_nan == <<"n", "a", "n">>

T_inf == <<"i", "n", "f">>

FloatLines ==
    {T_1000, T_1050, T_900, T_0, T_1234_50, T_minus5, T_abc, T_nan, T_inf}

\* the debt-type line is only compared and echoed: it is kept as a string
DebtLines ==
    {"Credit Card", "Federal Credit Union", "credit card", " Credit Card", "",
     "Installment"}

\* rejected lines in one run
MaxRetries == 1

(***************************************************************************)
(* interest_rate_calculator_runner.py: main                                *)
(***************************************************************************)
\* variant: the label is matched without regard to case
compound_categories_folded ==
    {"Credit Card", "Federal Credit Union", "credit card"}

compound_categories == {"Credit Card", "Federal Credit Union"}

\* n = 365  # Daily compounding
DailyCompounding == 365

\* variant: the two amounts are asked for in the other order
NextStepSwapped(p) ==
    CASE p = "start" -> "principal_date"
      [] p = "principal_date" -> "current_date"
      [] p = "current_date" -> "amount"
      [] p = "amount" -> "principal"
      [] p = "principal" -> "debt_type"
      [] p = "debt_type" -> "duration"
      [] p = "duration" -> "rate"
      [] p = "rate" -> "print"
      [] p = "print" -> "done"

\* the statement of main that follows the one at p
NextStep(p) ==
    CASE p = "start" -> "principal_date"
      [] p = "principal_date" -> "current_date"
      [] p = "current_date" -> "principal"
      [] p = "principal" -> "amount"
      [] p = "amount" -> "debt_type"
      [] p = "debt_type" -> "duration"
      [] p = "duration" -> "rate"
      [] p = "rate" -> "print"
      [] p = "print" -> "done"

\* the statements still to run from each position of a run in progress
StepsLeft ==
    [p \in {"start", "principal_date", "current_date", "principal", "amount",
            "debt_type", "duration", "rate", "print"} |-> NextStep(p)]

Ev(e, a) == [ev |-> e, arg |-> a]

Rejections == Cardinality({i \in DOMAIN trace : trace[i].ev = "reject"})

Unset == <<>>

NoFloatYet == [k |-> "none", n |-> 0, d |-> 1]

NoCall == [fn |-> "none", args |-> <<>>]

Init ==
    /\ pc = "start"
    /\ principal_date = Unset
    /\ current_date = Unset
    /\ principal = NoFloatYet
    /\ amount = NoFloatYet
    /\ debt_type = "<unbound>"
    /\ time_years = NoFloatYet
    /\ rate = NoFloatYet
    /\ trace = <<>>
    /\ line = <<>>
    /\ err = NoRet
    /\ cache = {}
    /\ call = NoCall
    /\ ret = NoRet
    /\ hit = FALSE
    /\ returned = {}

\* print("Welcome to the Interest Rate Calculator!")
Welcome ==
    /\ pc = "start"
    /\ trace' = Append(trace, Ev("print", "welcome"))
    /\ pc' = NextStep(pc)
    /\ UNCHANGED <<principal_date, current_date, principal, amount, debt_type,
                   time_years, rate, line, err, cache, call, ret, hit, returned>>

\* one line answered at a date prompt
ReadDate(which, text) ==
    LET r == get_date_input(text)
    IN  /\ pc = which
        /\ IF r.accepted
           THEN /\ trace' = trace \o <<Ev("prompt", which), Ev("accept", which)>>
                /\ pc' = NextStep(pc)
                /\ IF which = "principal_date"
                   THEN principal_date' = text /\ UNCHANGED current_date
                   ELSE current_date' = text /\ UNCHANGED principal_date
           ELSE /\ Rejections < MaxRetries
                /\ trace' = trace \o <<Ev("prompt", which), Ev("reject", r.msg)>>
                /\ UNCHANGED <<pc, principal_date, current_date>>
        /\ UNCHANGED <<principal, amount, debt_type, time_years, rate, line, err,
                       cache, call, ret, hit, returned>>

ReadPrincipalDate == \E text \in DateLines : ReadDate("principal_date", text)

ReadCurrentDate == \E text \in DateLines : ReadDate("current_date", text)

\* one line answered at an amount prompt
ReadFloat(which, text) ==
    LET r == get_float_input(text)
    IN  /\ pc = which
        /\ IF r.accepted
           THEN /\ trace' = trace \o <<Ev("prompt", which), Ev("accept", which)>>
                /\ pc' = NextStep(pc)
                /\ IF which = "principal"
                   THEN principal' = r.value /\ UNCHANGED amount
                   ELSE amount' = r.value /\ UNCHANGED principal
           ELSE /\ Rejections < MaxRetries
                /\ trace' = trace \o <<Ev("prompt", which), Ev("reject", r.msg)>>
                /\ UNCHANGED <<pc, principal, amount>>
        /\ UNCHANGED <<principal_date, current_date, debt_type, time_years, rate,
                       line, err, cache, call, ret, hit, returned>>

ReadPrincipal == \E text \in FloatLines : ReadFloat("principal", text)

ReadAmount == \E text \in FloatLines : ReadFloat("amount", text)

\* debt_type = input(...): whatever is typed is taken
ReadDebtType ==
    \E text \in DebtLines :
        /\ pc = "debt_type"
        /\ debt_type' = text
        /\ trace' = trace \o <<Ev("prompt", "debt_type"), Ev("accept", "debt_type")>>
        /\ pc' = NextStep(pc)
        /\ UNCHANGED <<principal_date, current_date, principal, amount,
                       time_years, rate, line, err, cache, call, ret, hit,
                       returned>>

\* time_years = calculate_duration_in_years(principal_date, current_date)
Duration ==
    /\ pc = "duration"
    /\ \E r \in {lru_cache(cache, principal_date, current_date)} :
          /\ call' = [fn |-> "calculate_duration_in_years",
                      args |-> <<principal_date, current_date>>]
          /\ ret' = r.ret
          /\ cache' = r.cache
          /\ hit' = r.hit
          /\ IF r.ret.tag = "ok"
             THEN /\ time_years' = r.ret.val
                  /\ returned' =
                         returned \cup {<<principal_date, current_date, r.ret.val>>}
                  /\ trace' = Append(trace, Ev("call", "calculate_duration_in_years"))
                  /\ pc' = NextStep(pc)
                  /\ UNCHANGED err
             ELSE /\ err' = r.ret
                  /\ trace' = trace \o <<Ev("call", "calculate_duration_in_years"),
                                         Ev("raise", r.ret.msg)>>
                  /\ pc' = "failed"
                  /\ UNCHANGED <<time_years, returned>>
    /\ UNCHANGED <<principal_date, current_date, principal, amount, debt_type,
                   rate, line>>

\* the dispatch on debt_type and the rate call
Rate ==
    LET compound == debt_type \in compound_categories
        n  == Fin(DailyCompounding, 1)
        fn == IF compound THEN "calculate_compound_interest_rate"
              ELSE "calculate_simple_interest_rate"
    IN  /\ pc = "rate"
        /\ \E r \in {IF compound
                     THEN calculate_compound_interest_rate(principal, amount,
                                                           time_years, n)
                     ELSE calculate_simple_interest_rate(principal, amount,
                                                         time_years)} :
              /\ call' = [fn |-> fn,
                          args |-> IF compound
                                   THEN <<principal, amount, time_years, n>>
                                   ELSE <<principal, amount, time_years>>]
              /\ ret' = r
              /\ IF r.tag = "ok"
                 THEN /\ rate' = r.val
                      /\ trace' = Append(trace, Ev("call", fn))
                      /\ pc' = NextStep(pc)
                      /\ UNCHANGED err
                 ELSE /\ err' = r
                      /\ trace' = trace \o <<Ev("call", fn), Ev("raise", r.msg)>>
                      /\ pc' = "failed"
                      /\ UNCHANGED rate
        /\ UNCHANGED <<principal_date, current_date, principal, amount,
                       debt_type, time_years, line, cache, hit, returned>>

\* print(f"The calculated annual interest rate for {debt_type} debt is: {rate:.2f}%")
PrintResult ==
    /\ pc = "print"
    /\ line' = Append(line, [debt |-> debt_type, text |-> Format2f(rate)])
    /\ trace' = Append(trace, Ev("print", "result"))
    /\ pc' = NextStep(pc)
    /\ UNCHANGED <<principal_date, current_date, principal, amount, debt_type,
                   time_years, rate, err, cache, call, ret, hit, returned>>

Next ==
    \/ Welcome
    \/ ReadPrincipalDate
    \/ ReadCurrentDate
    \/ ReadPrincipal
    \/ ReadAmount
    \/ ReadDebtType
    \/ Duration
    \/ Rate
    \/ PrintResult

Spec == Init /\ [][Next]_vars

(***************************************************************************)
(* calculate_duration_in_years called any number of times in one process   *)
(***************************************************************************)
DurationArgs ==
    {D_2020_01_01, D_2020_03_01, D_2021_01_01, D_2021_1_1, D_2024_13_01}

InitDuration ==
    /\ pc = "lib"
    /\ principal_date = Unset
    /\ current_date = Unset
    /\ principal = NoFloatYet
    /\ amount = NoFloatYet
    /\ debt_type = "<unbound>"
    /\ time_years = NoFloatYet
    /\ rate = NoFloatYet
    /\ trace = <<>>
    /\ line = <<>>
    /\ err = NoRet
    /\ cache = {}
    /\ call = NoCall
    /\ ret = NoRet
    /\ hit = FALSE
    /\ returned = {}

CallDuration ==
    \E start_date \in DurationArgs, end_date \in DurationArgs :
        \E r \in {lru_cache(cache, start_date, end_date)} :
            /\ pc = "lib"
            /\ call' = [fn |-> "calculate_duration_in_years",
                        args |-> <<start_date, end_date>>]
            /\ ret' = r.ret
            /\ cache' = r.cache
            /\ hit' = r.hit
            /\ returned' = IF r.ret.tag = "ok"
                           THEN returned \cup {<<start_date, end_date, r.ret.val>>}
                           ELSE returned
            /\ UNCHANGED <<pc, principal_date, current_date, principal, amount,
                           debt_type, time_years, rate, trace, line, err>>

NextDuration == CallDuration

SpecDuration == InitDuration /\ [][NextDuration]_vars

(***************************************************************************)
(* The two rate functions applied to one argument list                     *)
(***************************************************************************)
RateFloats ==
    {Fin(0 - 5, 1), Zero, Fin(900, 1), Fin(1000, 1), Fin(1050, 1), Inf(1), NaN}

RateYears == {Fin(0 - 1, 1), Zero, YearsOfDays(366), Inf(1), NaN}

RatePeriods == {Fin(0 - 1, 1), Zero, Fin(DailyCompounding, 1), NaN}

CompoundCalls ==
    {[fn |-> "calculate_compound_interest_rate", args |-> <<p, a, t, n>>] :
        p \in RateFloats, a \in RateFloats, t \in RateYears, n \in RatePeriods}

SimpleCalls ==
    {[fn |-> "calculate_simple_interest_rate", args |-> <<p, a, t>>] :
        p \in RateFloats, a \in RateFloats, t \in RateYears}

InitRates ==
    /\ pc = "call"
    /\ principal_date = Unset
    /\ current_date = Unset
    /\ principal = NoFloatYet
    /\ amount = NoFloatYet
    /\ debt_type = "<unbound>"
    /\ time_years = NoFloatYet
    /\ rate = NoFloatYet
    /\ trace = <<>>
    /\ line = <<>>
    /\ err = NoRet
    /\ cache = {}
    /\ call \in CompoundCalls \cup SimpleCalls
    /\ ret = NoRet
    /\ hit = FALSE
    /\ returned = {}

CallCompound ==
    /\ pc = "call"
    /\ call.fn = "calculate_compound_interest_rate"
    /\ ret' = calculate_compound_interest_rate(call.args[1], call.args[2],
                                               call.args[3], call.args[4])
    /\ pc' = "returned"
    /\ UNCHANGED <<principal_date, current_date, principal, amount, debt_type,
                   time_years, rate, trace, line, err, cache, call, hit,
                   returned>>

CallSimple ==
    /\ pc = "call"
    /\ call.fn = "calculate_simple_interest_rate"
    /\ ret' = calculate_simple_interest_rate(call.args[1], call.args[2],
                                             call.args[3])
    /\ pc' = "returned"
    /\ UNCHANGED <<principal_date, current_date, principal, amount, debt_type,
                   time_years, rate, trace, line, err, cache, call, hit,
                   returned>>

NextRates == CallCompound \/ CallSimple

SpecRates == InitRates /\ [][NextRates]_vars

(***************************************************************************)
(* Properties                                                              *)
(***************************************************************************)
Order == <<"principal_date", "current_date", "principal", "amount", "debt_type">>

AcceptsBefore(i) == Cardinality({j \in 1..(i - 1) : trace[j].ev = "accept"})

Position(which) == CHOOSE k \in DOMAIN Order : Order[k] = which

IsCompoundCall == call.fn = "calculate_compound_interest_rate"

IsSimpleCall == call.fn = "calculate_simple_interest_rate"

IsDurationCall == call.fn = "calculate_duration_in_years"

\* C1: main computes the rate with calculate_compound_interest_rate and
\* n = 365 exactly when the typed debt type equals "Credit Card" or "Federal
\* Credit Union" character for character, and with
\* calculate_simple_interest_rate for every other string; the debt-type
\* prompt is issued once and whatever is typed is accepted.
C1_DispatchByExactMembership ==
    /\ (IsCompoundCall \/ IsSimpleCall) =>
          /\ IsCompoundCall <=> debt_type \in {"Credit Card", "Federal Credit Union"}
          /\ IsCompoundCall => call.args[4] = Fin(365, 1)
    /\ pc \in {"print", "done"} => IsCompoundCall \/ IsSimpleCall
    /\ \A i \in DOMAIN trace :
          trace[i] = Ev("prompt", "debt_type") =>
             /\ i < Len(trace)
             /\ trace[i + 1] = Ev("accept", "debt_type")
             /\ debt_type \in DebtLines
    /\ pc = "debt_type" => ENABLED ReadDebtType

C1_Witness ==
    /\ pc = "done"
    /\ debt_type = " Credit Card"
    /\ IsSimpleCall

\* C2: the inputs are accepted in the order principal date, current date,
\* principal, amount, debt type; a prompt is issued only when all earlier
\* inputs have been accepted; the helpers are called only after all five;
\* a run that completes prints exactly one result line, as its last event,
\* and then takes no further step.
C2_FixedPromptOrder ==
    /\ \A i \in DOMAIN trace :
          /\ trace[i].ev = "accept" => trace[i].arg = Order[AcceptsBefore(i) + 1]
          /\ trace[i].ev = "prompt" => Position(trace[i].arg) = AcceptsBefore(i) + 1
          /\ trace[i].ev = "call" => AcceptsBefore(i) = Len(Order)
          /\ trace[i] = Ev("print", "result") => i = Len(trace)
    /\ Len(line) <= 1
    /\ pc = "done" =>
          /\ Len(line) = 1
          /\ trace[Len(trace)] = Ev("print", "result")
          /\ ~ENABLED Next

C2_Witness ==
    /\ pc = "done"
    /\ Rejections >= 1

\* C3: every rejected line (a date that does not parse such as 2024-13-01,
\* non-numeric text such as abc, a negative number such as -5) prints a
\* message and is followed by the same prompt, never by an exception or the
\* next prompt; get_float_input returns only a value >= 0, computed with the
\* commas removed ("1,234.50" gives 1234.50).
C3_InputErrorsRecoverable ==
    /\ \A i \in DOMAIN trace :
          trace[i].ev = "reject" =>
             /\ i > 1
             /\ trace[i - 1].ev = "prompt"
             /\ i < Len(trace) => trace[i + 1] = trace[i - 1]
    /\ ~get_date_input(D_2024_13_01).accepted
    /\ ~get_float_input(T_abc).accepted
    /\ ~get_float_input(T_minus5).accepted
    /\ get_float_input(T_1234_50).accepted
    /\ FEq(get_float_input(T_1234_50).value, Fin(123450, 100))
    /\ principal # NoFloatYet => FGe(principal, Zero)
    /\ amount # NoFloatYet => FGe(amount, Zero)

\* C4: for valid dates with start strictly earlier than end,
\* calculate_duration_in_years returns the whole-day difference divided by
\* 365.25, a value > 0, and every call with the same pair of strings, after
\* any other calls, returns the same value.
C4_DurationPositiveAndRepeatable ==
    (/\ IsDurationCall
     /\ strptime(call.args[1]).ok
     /\ strptime(call.args[2]).ok
     /\ DateOrdinal(call.args[1]) < DateOrdinal(call.args[2])) =>
        /\ ret.tag = "ok"
        /\ ret.val.k = "fin"
        /\ FGt(ret.val, Zero)
        /\ ret.val.n * 36525 =
              (DateOrdinal(call.args[2]) - DateOrdinal(call.args[1])) * 100 * ret.val.d
        /\ \A e \in returned :
              e[1] = call.args[1] /\ e[2] = call.args[2] => e[3] = ret.val

C4_Witness ==
    /\ call = [fn |-> "calculate_duration_in_years",
               args |-> <<D_2020_01_01, D_2021_01_01>>]
    /\ hit
    /\ Cardinality(cache) >= 2
    /\ ret.tag = "ok"
    /\ ret.val.n * 36525 = 366 * 100 * ret.val.d

\* C5: calculate_duration_in_years with start equal to or later than end
\* raises the invalid-range error on every call, whatever the cache holds,
\* and no failing pair is ever stored in the cache or returned.
C5_InvalidRangeAlwaysFails ==
    /\ (/\ IsDurationCall
        /\ strptime(call.args[1]).ok
        /\ strptime(call.args[2]).ok
        /\ DateOrdinal(call.args[1]) >= DateOrdinal(call.args[2])) =>
           /\ ret.tag = "ValueError"
           /\ ret.msg = MsgRange
           /\ ~hit
    /\ \A e \in cache :
          /\ strptime(e[1][1]).ok
          /\ strptime(e[1][2]).ok
          /\ DateOrdinal(e[1][1]) < DateOrdinal(e[1][2])
    /\ \A e \in returned : DateOrdinal(e[1]) < DateOrdinal(e[2])

C5_Witness ==
    /\ IsDurationCall
    /\ call.args = <<D_2021_01_01, D_2021_1_1>>
    /\ ret.msg = MsgRange
    /\ Cardinality(cache) >= 2

\* C6: calculate_simple_interest_rate with principal > 0 and amount <
\* principal raises the validation error for every time_years, and whenever
\* the function returns, the result is >= 0.
C6_SimpleNeverNegative ==
    (pc = "returned" /\ IsSimpleCall) =>
        /\ (FGt(call.args[1], Zero) /\ FLt(call.args[2], call.args[1])) =>
              ret.tag = "ValueError" /\ ret.msg = MsgBelow
        /\ ret.tag = "ok" => FGe(ret.val, Zero)

\* C7: with amount equal to principal, both rate functions return exactly 0
\* without evaluating the formula when principal > 0 and time_years > 0 (and
\* n > 0 for the compound one), and raise the validation error instead when
\* time_years <= 0 (or n <= 0 for the compound one).
C7_EqualAmountsGiveZero ==
    (pc = "returned" /\ FEq(call.args[2], call.args[1])) =>
        /\ (/\ FGt(call.args[1], Zero)
            /\ FGt(call.args[3], Zero)
            /\ IsCompoundCall => FGt(call.args[4], Zero)) =>
               ret = Ok(Zero, FALSE)
        /\ (\/ FLe(call.args[3], Zero)
            \/ IsCompoundCall /\ FLe(call.args[4], Zero)) =>
               ret.tag = "ValueError"

C7_Witness ==
    /\ pc = "returned"
    /\ IsCompoundCall
    /\ call.args = <<Fin(1000, 1), Fin(1000, 1), YearsOfDays(366), Fin(365, 1)>>
    /\ ret = Ok(Zero, FALSE)

C8_Run ==
    /\ pc = "done"
    /\ principal_date = D_2020_01_01
    /\ current_date = D_2021_01_01
    /\ principal = Fin(1000, 1)
    /\ amount = Fin(1050, 1)
    /\ debt_type = "Installment"

\* C8 as stated: the run 2020-01-01, 2021-01-01, 1000, 1050, "Installment"
\* takes the simple-interest path and prints the rate as 5.00%.
C8_PrintsFivePercent ==
    C8_Run =>
        /\ IsSimpleCall
        /\ line = <<[debt |-> "Installment", text |-> [k |-> "fin", h |-> 500]]>>

\* C8 as amended: the run 2020-01-01, 2021-01-01, 1000, 1050, "Installment"
\* takes the simple-interest path with time_years = 366 / 365.25 (2020 is a
\* leap year) and prints the rate as 4.99%.
C8_PrintsFourNinetyNine ==
    C8_Run =>
        /\ IsSimpleCall
        /\ time_years.n * 36525 = 366 * 100 * time_years.d
        /\ line = <<[debt |-> "Installment", text |-> [k |-> "fin", h |-> 499]]>>

C8_Witness == C8_Run /\ Len(line) = 1

IsNegativeRate(x) == IF x.k = "cmp" THEN x.n < x.d ELSE FLt(x, Zero)

FirstViolated(p, a, t, n) ==
    IF ~FGt(p, Zero) THEN MsgPrincipal
    ELSE IF ~FGe(a, Zero) THEN MsgNegative
    ELSE IF ~FGt(t, Zero) THEN MsgTime
    ELSE IF ~FGt(n, Zero) THEN MsgPeriods
    ELSE ""

\* C9: calculate_compound_interest_rate reports the first violated of the
\* preconditions principal > 0, amount >= 0, time_years > 0, n > 0, each
\* with its own message and before the amount == principal short-circuit;
\* every input that meets all four is accepted, and with amount < principal
\* it returns a negative rate.
C9_CompoundChecksInOrder ==
    /\ Cardinality({MsgPrincipal, MsgNegative, MsgTime, MsgPeriods}) = 4
    /\ (pc = "returned" /\ IsCompoundCall) =>
          LET v == FirstViolated(call.args[1], call.args[2], call.args[3],
                                 call.args[4])
          IN  /\ v # "" => ret.tag = "ValueError" /\ ret.msg = v
              /\ v = "" =>
                    /\ ret.tag = "ok"
                    /\ FLt(call.args[2], call.args[1]) => IsNegativeRate(ret.val)

====
